---- MODULE Spec2Model ----
(***************************************************************************)
(* A model of dodiscover's ContextBuilder and of the make_context factory  *)
(* (src/dodiscover/context_builder.py).                                    *)
(*                                                                         *)
(* A builder is a record of its six private fields.  An Optional value is  *)
(* None (the empty tuple) or Some(v) (a one-element tuple).  A graph is a  *)
(* record of its node set and its set of undirected edges, an edge being   *)
(* the set {u, v} of its two end points.  A dictionary is a Python object  *)
(* with an identity: the builders and the contexts hold references into    *)
(* heap, and object 0 is the dictionary the class attribute                *)
(* ContextBuilder._state_variables is bound to when the class is defined.  *)
(***************************************************************************)
EXTENDS Integers, FiniteSets, Sequences, TLC

VARIABLES builders, contexts, heap, last, calls

vars == <<builders, contexts, heap, last, calls>>

----------------------------------------------------------------------------
(* Bounds *)

MaxBuilders == 2
MaxContexts == 1
MaxCalls == 5

BuilderIds == 1..MaxBuilders
CtxIds == 1..MaxContexts
DictIds == 0..(MaxBuilders + MaxContexts)

----------------------------------------------------------------------------
(* Optional values *)

None == <<>>
Some(v) == <<v>>
IsNone(x) == x = None
Get(x) == x[1]

----------------------------------------------------------------------------
(* Graphs (networkx.Graph, as far as the builder uses it) *)

Graph(N, E) == [nodes |-> N, edges |-> E]

has_edge(g, e) == e \in g.edges

complete_graph(N) == Graph(N, {{u, v} : u, v \in N} \ {{u} : u \in N})

empty_graph(N) == Graph(N, {})

\* bool(g) of a networkx graph is len(g) > 0, the number of its nodes
Truthy(g) == g.nodes # {}

----------------------------------------------------------------------------
(* Dictionaries: a set of <<key, value>> pairs with pairwise distinct keys *)

EmptyDict == {}

DictSet(d, name, var) == {p \in d : p[1] # name} \cup {<<name, var>>}

----------------------------------------------------------------------------
(* ContextBuilder: the fields and the methods.  A method is an operator    *)
(* from the builder (self) and the arguments to the builder after the call *)
(* and the exception the call raised, OK when it returned.                 *)

OK == "ok"
RuntimeError == "RuntimeError"
ValueError == "ValueError"
TypeError == "TypeError"
AttributeError == "AttributeError"

Ret(self, exc) == [self |-> self, exc |-> exc]

\* object 0: the dict() evaluated once, in the class body
ClassDict == 0

\* the class-level defaults every new instance starts from
ContextBuilder ==
    [ init_graph         |-> None,
      included_edges     |-> None,
      excluded_edges     |-> None,
      observed_variables |-> None,
      latent_variables   |-> None,
      state_variables    |-> ClassDict ]

NoBuilder == [absent |-> TRUE]

init_graph(self, graph) == Ret([self EXCEPT !.init_graph = graph], OK)

\* a conflict check that asks for every edge, not for some edge
EdgeConflict_AllEdges(new, other) ==
    new.edges # {} /\ \A e \in new.edges : has_edge(other, e)

\* for u, v in new.edges: if other.has_edge(u, v)
EdgeConflict(new, other) == \E e \in new.edges : has_edge(other, e)

excluded_edges(self, exclude) ==
    IF ~IsNone(self.included_edges)
    THEN IF IsNone(exclude)
         THEN Ret(self, AttributeError)
         ELSE IF EdgeConflict(Get(exclude), Get(self.included_edges))
              THEN Ret(self, RuntimeError)
              ELSE Ret([self EXCEPT !.excluded_edges = exclude], OK)
    ELSE Ret([self EXCEPT !.excluded_edges = exclude], OK)

included_edges(self, include) ==
    IF ~IsNone(self.excluded_edges)
    THEN IF IsNone(include)
         THEN Ret(self, AttributeError)
         ELSE IF EdgeConflict(Get(include), Get(self.excluded_edges))
              THEN Ret(self, RuntimeError)
              ELSE Ret([self EXCEPT !.included_edges = include], OK)
    ELSE Ret([self EXCEPT !.included_edges = include], OK)

\* the cross-check of the single setters added to the combined setter
edges_Checked(self, include, exclude) ==
    IF ~IsNone(include) /\ ~IsNone(exclude) /\ EdgeConflict(Get(include), Get(exclude))
    THEN Ret(self, RuntimeError)
    ELSE Ret([self EXCEPT !.included_edges = include, !.excluded_edges = exclude], OK)

edges(self, include, exclude) ==
    Ret([self EXCEPT !.included_edges = include, !.excluded_edges = exclude], OK)

\* all(...) in place of any(...)
VariableConflict_All(new, other) == new # {} /\ \A v \in new : v \in other

\* any(v in other for v in new)
VariableConflict(new, other) == \E v \in new : v \in other

\* the assignment moved above the check
observed_variables_AssignFirst(self, observed) ==
    IF ~IsNone(self.latent_variables)
    THEN IF IsNone(observed)
         THEN Ret(self, TypeError)
         ELSE IF VariableConflict(Get(observed), Get(self.latent_variables))
              THEN Ret([self EXCEPT !.observed_variables = observed], RuntimeError)
              ELSE Ret([self EXCEPT !.observed_variables = observed], OK)
    ELSE Ret([self EXCEPT !.observed_variables = observed], OK)

observed_variables(self, observed) ==
    IF ~IsNone(self.latent_variables)
    THEN IF IsNone(observed)
         THEN Ret(self, TypeError)
         ELSE IF VariableConflict(Get(observed), Get(self.latent_variables))
              THEN Ret(self, RuntimeError)
              ELSE Ret([self EXCEPT !.observed_variables = observed], OK)
    ELSE Ret([self EXCEPT !.observed_variables = observed], OK)

latent_variables(self, latents) ==
    IF ~IsNone(self.observed_variables)
    THEN IF IsNone(latents)
         THEN Ret(self, TypeError)
         ELSE IF VariableConflict(Get(latents), Get(self.observed_variables))
              THEN Ret(self, RuntimeError)
              ELSE Ret([self EXCEPT !.latent_variables = latents], OK)
    ELSE Ret([self EXCEPT !.latent_variables = latents], OK)

\* the second and the third branch exchanged
interpolate_variables_Swapped(columns, observed, latents) ==
    IF ~IsNone(observed) /\ ~IsNone(latents)
    THEN IF columns \ Get(observed) # Get(latents)
         THEN [raises |-> TRUE, observed |-> {}, latents |-> {}]
         ELSE [raises |-> FALSE, observed |-> Get(observed), latents |-> Get(latents)]
    ELSE IF IsNone(observed) /\ ~IsNone(latents)
    THEN [raises |-> FALSE, observed |-> Get(latents), latents |-> columns \ Get(latents)]
    ELSE IF IsNone(latents) /\ ~IsNone(observed)
    THEN [raises |-> FALSE, observed |-> columns \ Get(observed), latents |-> Get(observed)]
    ELSE [raises |-> FALSE, observed |-> columns, latents |-> {}]

\* columns is set(data.columns); the result is the pair returned, or raises
interpolate_variables(columns, observed, latents) ==
    IF ~IsNone(observed) /\ ~IsNone(latents)
    THEN IF columns \ Get(observed) # Get(latents)
         THEN [raises |-> TRUE, observed |-> {}, latents |-> {}]
         ELSE [raises |-> FALSE, observed |-> Get(observed), latents |-> Get(latents)]
    ELSE IF IsNone(observed) /\ ~IsNone(latents)
    THEN [raises |-> FALSE, observed |-> columns \ Get(latents), latents |-> Get(latents)]
    ELSE IF IsNone(latents) /\ ~IsNone(observed)
    THEN [raises |-> FALSE, observed |-> Get(observed), latents |-> columns \ Get(observed)]
    ELSE [raises |-> FALSE, observed |-> columns, latents |-> {}]

\* the check at the end of variables() left out
variables_NoFinalCheck(self, observed, latents, data) ==
    LET assigned == [self EXCEPT !.observed_variables = observed,
                                 !.latent_variables = latents]
    IN  IF ~IsNone(data)
        THEN LET r == interpolate_variables(Get(data), observed, latents)
             IN  IF r.raises
                 THEN Ret(assigned, ValueError)
                 ELSE Ret([assigned EXCEPT !.observed_variables = Some(r.observed),
                                           !.latent_variables = Some(r.latents)], OK)
        ELSE Ret(assigned, OK)

variables(self, observed, latents, data) ==
    LET assigned == [self EXCEPT !.observed_variables = observed,
                                 !.latent_variables = latents]
    IN  IF ~IsNone(data)
        THEN LET r == interpolate_variables(Get(data), observed, latents)
             IN  IF r.raises
                 THEN Ret(assigned, ValueError)
                 ELSE Ret([assigned EXCEPT !.observed_variables = Some(r.observed),
                                           !.latent_variables = Some(r.latents)], OK)
        ELSE IF IsNone(assigned.observed_variables)
             THEN Ret(assigned, ValueError)
             ELSE Ret(assigned, OK)

\* the argument is a reference to the caller's dictionary
state_variables(self, ref) == Ret([self EXCEPT !.state_variables = ref], OK)

\* self._state_variables[name] = var: the object the field refers to changes
state_variable(h, self, name, var) ==
    [h EXCEPT ![self.state_variables] = DictSet(@, name, var)]

\* the nodes compared for equality, not for inclusion
has_all_variables_Equal(self, g) == Get(self.observed_variables) = g.nodes

\* has_all_variables(g): set(g.nodes).issuperset(set(self._observed_variables))
has_all_variables(self, g) == Get(self.observed_variables) \subseteq g.nodes

\* the default taken from the empty graph, not from the complete graph
interpolate_graph_EmptyDefault(self, graph_variables) ==
    IF IsNone(self.init_graph)
    THEN [raises |-> FALSE, graph |-> empty_graph(graph_variables)]
    ELSE IF ~has_all_variables(self, Get(self.init_graph))
         THEN [raises |-> TRUE, graph |-> empty_graph({})]
         ELSE [raises |-> FALSE, graph |-> Get(self.init_graph)]

\* the graph returned, or raises; called by build once observed is known set
interpolate_graph(self, graph_variables) ==
    IF IsNone(self.init_graph)
    THEN [raises |-> FALSE, graph |-> complete_graph(graph_variables)]
    ELSE IF ~has_all_variables(self, Get(self.init_graph))
         THEN [raises |-> TRUE, graph |-> empty_graph({})]
         ELSE [raises |-> FALSE, graph |-> Get(self.init_graph)]

\* x or default(), for an Optional graph x
GraphOr(x, default) == IF ~IsNone(x) /\ Truthy(Get(x)) THEN Get(x) ELSE default

\* x or set(), for an Optional set x
SetOr(x) == IF ~IsNone(x) /\ Get(x) # {} THEN Get(x) ELSE {}

\* The Context record (dodiscover/context.py): the constructor keeps the six
\* arguments as they are passed, the dictionary by reference.
Context(ig, inc, exc, obs, lat, sv) ==
    [ init_graph         |-> ig,
      included_edges     |-> inc,
      excluded_edges     |-> exc,
      observed_variables |-> obs,
      latent_variables   |-> lat,
      state_variables    |-> sv ]

\* the Context returned (Some), or None with the exception raised
build(self) ==
    IF IsNone(self.observed_variables)
    THEN [context |-> None, exc |-> ValueError]
    ELSE LET observed == Get(self.observed_variables)
             g == interpolate_graph(self, observed)
         IN  IF g.raises
             THEN [context |-> None, exc |-> ValueError]
             ELSE [context |-> Some(Context(g.graph,
                                            GraphOr(self.included_edges, empty_graph(observed)),
                                            GraphOr(self.excluded_edges, empty_graph(observed)),
                                            observed,
                                            SetOr(self.latent_variables),
                                            self.state_variables)),
                   exc |-> OK]

----------------------------------------------------------------------------
(* make_context *)

\* Context.get_params(): the mapping of field name to value, all six fields
get_params(context) ==
    << <<"init_graph", Some(context.init_graph)>>,
       <<"included_edges", Some(context.included_edges)>>,
       <<"excluded_edges", Some(context.excluded_edges)>>,
       <<"observed_variables", Some(context.observed_variables)>>,
       <<"latent_variables", Some(context.latent_variables)>>,
       <<"state_variables", context.state_variables>> >>

\* getattr(result, param)(value): every parameter names a method of the builder
CallSetter(result, param, value) ==
    CASE param = "init_graph"         -> init_graph(result, value)
      [] param = "included_edges"     -> included_edges(result, value)
      [] param = "excluded_edges"     -> excluded_edges(result, value)
      [] param = "observed_variables" -> observed_variables(result, value)
      [] param = "latent_variables"   -> latent_variables(result, value)
      [] param = "state_variables"    -> state_variables(result, value)

\* for param, value in ctx_params.items(): from the i-th item on; an
\* exception ends the loop and leaves make_context
RECURSIVE CopyParams(_, _, _)
CopyParams(result, ctx_params, i) ==
    IF i > Len(ctx_params)
    THEN Ret(result, OK)
    ELSE LET r == CallSetter(result, ctx_params[i][1], ctx_params[i][2])
         IN  IF r.exc # OK THEN r ELSE CopyParams(r.self, ctx_params, i + 1)

\* context is None or Some(a Context); the builder returned, or raises
make_context(context) ==
    IF IsNone(context)
    THEN Ret(ContextBuilder, OK)
    ELSE CopyParams(ContextBuilder, get_params(Get(context)), 1)

----------------------------------------------------------------------------
(* The program state.                                                      *)
(*   builders  the builder each of the caller's variables is bound to      *)
(*   contexts  the built contexts the caller keeps                         *)
(*   heap      the dictionaries, by identity; unreachable ones are dropped *)
(*   last      the last call: operation, receiver, arguments, the          *)
(*             exception raised (OK if none) and the Context returned      *)
(*   calls     the number of calls made, where a specification counts them *)

NoContext == [absent |-> TRUE]

Call(op, b, args, exc, result) ==
    [op |-> op, b |-> b, args |-> args, exc |-> exc, result |-> result]

LiveBuilders(bs) == {b \in BuilderIds : bs[b] # NoBuilder}
LiveContexts(cs) == {c \in CtxIds : cs[c] # NoContext}

\* the dictionaries some builder, kept context or returned context refers to
Live(bs, cs, result) ==
    {ClassDict}
      \cup {bs[b].state_variables : b \in LiveBuilders(bs)}
      \cup {cs[c].state_variables : c \in LiveContexts(cs)}
      \cup (IF IsNone(result) THEN {} ELSE {Get(result).state_variables})

Collect(h, bs, cs, result) == [i \in Live(bs, cs, result) |-> h[i]]

\* the identity of a dictionary created now
NewDict(bs, cs) ==
    CHOOSE i \in DictIds \ Live(bs, cs, None) :
        \A j \in DictIds \ Live(bs, cs, None) : i <= j

Return(bs, cs, h, call) ==
    /\ builders' = bs
    /\ contexts' = cs
    /\ heap' = Collect(h, bs, cs, call.result)
    /\ last' = call

\* a setter called on builder b: r is what the method did to the builder;
\* no reference to a dictionary is given up, so none becomes unreachable
Setter(op, b, args, r) ==
    /\ builders' = [builders EXCEPT ![b] = r.self]
    /\ last' = Call(op, b, args, r.exc, None)
    /\ UNCHANGED <<contexts, heap>>

InitGraph(b, graph) ==
    /\ builders[b] # NoBuilder
    /\ Setter("init_graph", b, [graph |-> graph], init_graph(builders[b], graph))

ExcludedEdges(b, exclude) ==
    /\ builders[b] # NoBuilder
    /\ Setter("excluded_edges", b, [exclude |-> exclude],
              excluded_edges(builders[b], exclude))

IncludedEdges(b, include) ==
    /\ builders[b] # NoBuilder
    /\ Setter("included_edges", b, [include |-> include],
              included_edges(builders[b], include))

Edges(b, include, exclude) ==
    /\ builders[b] # NoBuilder
    /\ Setter("edges", b, [include |-> include, exclude |-> exclude],
              edges(builders[b], include, exclude))

ObservedVariables(b, observed) ==
    /\ builders[b] # NoBuilder
    /\ Setter("observed_variables", b, [observed |-> observed],
              observed_variables(builders[b], observed))

LatentVariables(b, latents) ==
    /\ builders[b] # NoBuilder
    /\ Setter("latent_variables", b, [latents |-> latents],
              latent_variables(builders[b], latents))

Variables(b, observed, latents, data) ==
    /\ builders[b] # NoBuilder
    /\ Setter("variables", b,
              [observed |-> observed, latents |-> latents, data |-> data],
              variables(builders[b], observed, latents, data))

\* the caller passes a dictionary it has just created, with the items d
StateVariables(b, d) ==
    /\ builders[b] # NoBuilder
    /\ LET ref == NewDict([builders EXCEPT ![b] = NoBuilder], contexts)
           h == [i \in DOMAIN heap \cup {ref} |-> IF i = ref THEN d ELSE heap[i]]
           r == state_variables(builders[b], ref)
       IN  Return([builders EXCEPT ![b] = r.self], contexts, h,
                  Call("state_variables", b, [state_variables |-> d], r.exc, None))

StateVariable(b, name, var) ==
    /\ builders[b] # NoBuilder
    /\ heap' = state_variable(heap, builders[b], name, var)
    /\ last' = Call("state_variable", b, [name |-> name, var |-> var], OK, None)
    /\ UNCHANGED <<builders, contexts>>

\* a build() that stores the latent set it synthesized
Build_WriteBack(b, c) ==
    /\ builders[b] # NoBuilder
    /\ LET r == build(builders[b])
       IN  Return(IF r.exc = OK
                  THEN [builders EXCEPT
                            ![b].latent_variables = Some(Get(r.context).latent_variables)]
                  ELSE builders,
                  IF r.exc = OK /\ c \in CtxIds
                  THEN [contexts EXCEPT ![c] = Get(r.context)]
                  ELSE contexts,
                  heap,
                  Call("build", b, [keep |-> c], r.exc, r.context))

\* c = 0: the caller looks at the Context returned and drops it;
\* otherwise the caller keeps it as context c
Build(b, c) ==
    /\ builders[b] # NoBuilder
    /\ LET r == build(builders[b])
       IN  Return(builders,
                  IF r.exc = OK /\ c \in CtxIds
                  THEN [contexts EXCEPT ![c] = Get(r.context)]
                  ELSE contexts,
                  heap,
                  Call("build", b, [keep |-> c], r.exc, r.context))

\* b = make_context(context): when it raises, b stays bound as it was
MakeContext(b, context) ==
    LET r == make_context(context)
    IN  Return(IF r.exc = OK THEN [builders EXCEPT ![b] = r.self] ELSE builders,
               contexts, heap,
               Call("make_context", b, [context |-> context], r.exc, None))

----------------------------------------------------------------------------
(* The arguments the callers pass *)

\* the data has the columns a and b, or a alone; c is a variable the caller
\* can only name itself, and a node of graphs
Columns == {"a", "b"}
Nodes == Columns \cup {"c"}

ab == {"a", "b"}
bc == {"b", "c"}
ca == {"c", "a"}

VarSetInputs == {None} \cup {Some(S) : S \in SUBSET Columns}

\* the argument of observed_variables: also all three variables
ObservedInputs == VarSetInputs \cup {Some(Nodes)}

\* no data; data with the columns a, b; data with the column a
DataInputs == {None, Some(Columns), Some({"a"})}

\* inclusion constraints: none; the graph without nodes; the path a - b - c
IncludeInputs == {None, Some(Graph({}, {})), Some(Graph(Nodes, {ab, bc}))}

\* exclusion constraints: none; an edge of the path; an edge off the path
ExcludeInputs == {None, Some(Graph(Nodes, {ab})), Some(Graph(Nodes, {ca}))}

\* no graph; a graph that lacks b; a graph with the extra node c
InitGraphInputs ==
    {None, Some(Graph({"a"}, {})), Some(Graph(Nodes, {ab, bc}))}

Keys == {"k"}
Vals == {1}

DictInputs == {EmptyDict} \cup {{<<k, v>>} : k \in Keys, v \in Vals}

----------------------------------------------------------------------------
(* Spec: one builder, obtained from make_context(), and every method of    *)
(* it, with every argument of the sets above.  The calls are not counted.  *)

Init ==
    /\ builders = [b \in BuilderIds |-> IF b = 1 THEN ContextBuilder ELSE NoBuilder]
    /\ contexts = [c \in CtxIds |-> NoContext]
    /\ heap = [i \in {ClassDict} |-> EmptyDict]
    /\ last = Call("make_context", 1, [context |-> None], OK, None)
    /\ calls = 0

Next ==
    \/ \E graph \in InitGraphInputs : InitGraph(1, graph) /\ UNCHANGED calls
    \/ \E exclude \in ExcludeInputs : ExcludedEdges(1, exclude) /\ UNCHANGED calls
    \/ \E include \in IncludeInputs : IncludedEdges(1, include) /\ UNCHANGED calls
    \/ \E include \in IncludeInputs, exclude \in ExcludeInputs :
           Edges(1, include, exclude) /\ UNCHANGED calls
    \/ \E observed \in ObservedInputs : ObservedVariables(1, observed) /\ UNCHANGED calls
    \/ \E latents \in VarSetInputs : LatentVariables(1, latents) /\ UNCHANGED calls
    \/ \E observed \in VarSetInputs, latents \in VarSetInputs, data \in DataInputs :
           Variables(1, observed, latents, data) /\ UNCHANGED calls
    \/ \E d \in DictInputs : StateVariables(1, d) /\ UNCHANGED calls
    \/ \E name \in Keys, var \in Vals : StateVariable(1, name, var) /\ UNCHANGED calls
    \/ Build(1, 0) /\ UNCHANGED calls

Spec == Init /\ [][Next]_vars

----------------------------------------------------------------------------
(* SpecFactory: the caller's builders and kept contexts together, with     *)
(* make_context, in every order of at most MaxCalls calls.  The arguments  *)
(* are few: the ones that set a field, conflict, or fail.                  *)

Gab == Graph(Nodes, {ab})

FactoryVariables ==
    { <<Some({"a"}), Some({"a"}), None>>,
      <<None, None, Some(Columns)>>,
      <<None, None, None>> }

FactoryContexts == {None} \cup {Some(contexts[c]) : c \in LiveContexts(contexts)}

Tick == calls < MaxCalls /\ calls' = calls + 1

NextFactory ==
    \/ \E b \in BuilderIds : Tick /\ InitGraph(b, Some(Graph(Nodes, {ab, bc})))
    \/ \E b \in BuilderIds : Tick /\ ExcludedEdges(b, Some(Gab))
    \/ \E b \in BuilderIds : Tick /\ IncludedEdges(b, Some(Gab))
    \/ \E b \in BuilderIds, e \in {None, Some(Gab)} : Tick /\ Edges(b, e, e)
    \/ \E b \in BuilderIds : Tick /\ ObservedVariables(b, Some({"a"}))
    \/ \E b \in BuilderIds : Tick /\ LatentVariables(b, Some({"b"}))
    \/ \E b \in BuilderIds, a \in FactoryVariables :
           Tick /\ Variables(b, a[1], a[2], a[3])
    \/ \E b \in BuilderIds, d \in DictInputs : Tick /\ StateVariables(b, d)
    \/ \E b \in BuilderIds, name \in Keys, var \in Vals :
           Tick /\ StateVariable(b, name, var)
    \/ \E b \in BuilderIds, c \in {0} \cup CtxIds : Tick /\ Build(b, c)
    \/ \E b \in BuilderIds, context \in FactoryContexts :
           Tick /\ MakeContext(b, context)

SpecFactory == Init /\ [][NextFactory]_vars

----------------------------------------------------------------------------
(* Properties *)

\* the items of the dictionary builder b refers to
StateOf(b) == heap[builders[b].state_variables]

SharesEdge(I, E) == I.edges \cap E.edges # {}

C1_Step ==
    /\ ( /\ last.op = "included_edges" /\ last.exc = OK
         /\ last'.op = "excluded_edges" /\ last'.b = last.b
         /\ ~IsNone(last.args.include) /\ ~IsNone(last'.args.exclude)
         /\ SharesEdge(Get(last.args.include), Get(last'.args.exclude)) )
       => last'.exc = RuntimeError
    /\ ( /\ last.op = "excluded_edges" /\ last.exc = OK
         /\ last'.op = "included_edges" /\ last'.b = last.b
         /\ ~IsNone(last.args.exclude) /\ ~IsNone(last'.args.include)
         /\ SharesEdge(Get(last'.args.include), Get(last.args.exclude)) )
       => last'.exc = RuntimeError

\* C1: when included_edges(I) has returned, a following excluded_edges(E)
\* with an edge of I in E raises RuntimeError; and when excluded_edges(E) has
\* returned, a following included_edges(I) with an edge of E in I raises it.
C1_ConflictBothOrders == [][C1_Step]_vars

\* included_edges was refused for an edge it shares with a different,
\* already excluded graph
C1_Witness ==
    /\ last.op = "included_edges" /\ last.exc = RuntimeError
    /\ ~IsNone(builders[last.b].excluded_edges)
    /\ Get(builders[last.b].excluded_edges).edges # Get(last.args.include).edges
    /\ SharesEdge(Get(last.args.include), Get(builders[last.b].excluded_edges))

C2_Step ==
    /\ ( /\ last.op = "observed_variables" /\ last.exc = OK
         /\ last'.op = "latent_variables" /\ last'.b = last.b
         /\ ~IsNone(last.args.observed) /\ ~IsNone(last'.args.latents)
         /\ Get(last.args.observed) \cap Get(last'.args.latents) # {} )
       => last'.exc = RuntimeError
    /\ ( /\ last.op = "latent_variables" /\ last.exc = OK
         /\ last'.op = "observed_variables" /\ last'.b = last.b
         /\ ~IsNone(last.args.latents) /\ ~IsNone(last'.args.observed)
         /\ Get(last'.args.observed) \cap Get(last.args.latents) # {} )
       => last'.exc = RuntimeError

\* C2: when observed_variables(O) has returned, a following
\* latent_variables(L) with a variable of O in L raises RuntimeError; and when
\* latent_variables(L) has returned, a following observed_variables(O) with a
\* variable of L in O raises it.
C2_ConflictBothOrders == [][C2_Step]_vars

\* latent_variables was refused for a variable it shares with a different,
\* already observed set
C2_Witness ==
    /\ last.op = "latent_variables" /\ last.exc = RuntimeError
    /\ ~IsNone(builders[last.b].observed_variables)
    /\ Get(builders[last.b].observed_variables) # Get(last.args.latents)
    /\ Get(builders[last.b].observed_variables) \cap Get(last.args.latents) # {}

\* C3: in every state, a builder whose observed and latent variables are
\* both set has them disjoint, and so has every Context build() returns.
C3_ObservedLatentDisjoint ==
    /\ \A b \in LiveBuilders(builders) :
           (~IsNone(builders[b].observed_variables) /\ ~IsNone(builders[b].latent_variables))
           => Get(builders[b].observed_variables) \cap Get(builders[b].latent_variables) = {}
    /\ ~IsNone(last.result)
           => Get(last.result).observed_variables \cap Get(last.result).latent_variables = {}

\* C4: in every state, a builder whose included and excluded edges are both
\* set has no edge in both, and so has every Context build() returns.
C4_NoEdgeInBoth ==
    /\ \A b \in LiveBuilders(builders) :
           (~IsNone(builders[b].included_edges) /\ ~IsNone(builders[b].excluded_edges))
           => ~SharesEdge(Get(builders[b].included_edges), Get(builders[b].excluded_edges))
    /\ ~IsNone(last.result)
           => ~SharesEdge(Get(last.result).included_edges, Get(last.result).excluded_edges)

C5_Step ==
    (last'.op = "variables" /\ last'.exc = ValueError)
    => /\ builders'[last'.b].observed_variables = builders[last'.b].observed_variables
       /\ builders'[last'.b].latent_variables = builders[last'.b].latent_variables

\* C5: a call of variables() that raises ValueError leaves the observed and
\* the latent variables of the builder as they were before the call.
C5_FailedVariablesUnchanged == [][C5_Step]_vars

ConflictSetters ==
    {"included_edges", "excluded_edges", "observed_variables", "latent_variables"}

C6_Step ==
    (last'.op \in ConflictSetters /\ last'.exc = RuntimeError)
    => /\ builders'[last'.b] = builders[last'.b]
       /\ heap'[builders'[last'.b].state_variables] = StateOf(last'.b)

\* C6: a call of included_edges, excluded_edges, observed_variables or
\* latent_variables that raises RuntimeError leaves the six fields of the
\* builder, and the items of its state-variable dictionary, as they were.
C6_FailedSetterUnchanged == [][C6_Step]_vars

\* observed_variables was refused on a builder that holds another observed
\* set and state variables
C6_Witness ==
    /\ last.op = "observed_variables" /\ last.exc = RuntimeError
    /\ ~IsNone(builders[last.b].observed_variables)
    /\ builders[last.b].observed_variables # last.args.observed
    /\ ~IsNone(builders[last.b].included_edges)
    /\ StateOf(last.b) # EmptyDict

\* equal in initial graph, included and excluded edges, observed and latent
SameConfiguration(c, d) ==
    /\ c.init_graph = d.init_graph
    /\ c.included_edges = d.included_edges
    /\ c.excluded_edges = d.excluded_edges
    /\ c.observed_variables = d.observed_variables
    /\ c.latent_variables = d.latent_variables

\* C7: make_context(c), for a Context c that build() returned, does not
\* raise, and the builder it returns builds a Context equal to c in initial
\* graph, included edges, excluded edges, observed and latent variables.
C7_RoundTrip ==
    (last.op = "make_context" /\ ~IsNone(last.args.context))
    => /\ last.exc = OK
       /\ build(builders[last.b]).exc = OK
       /\ SameConfiguration(Get(build(builders[last.b]).context), Get(last.args.context))

\* C8: the builder make_context(c) returns has no state variables.  Stated
\* where nothing was written to the dictionary of the class, so that what the
\* builder holds can only have come from c.
C8_StateVariablesNotCopied ==
    (/\ last.op = "make_context" /\ ~IsNone(last.args.context)
     /\ last.exc = OK /\ heap[ClassDict] = EmptyDict)
    => StateOf(last.b) = EmptyDict

\* C9: the builder make_context() returns has its five configuration fields
\* unset and no state variables, whatever was done to other builders before.
C9_FreshBuilderEmpty ==
    (last.op = "make_context" /\ IsNone(last.args.context))
    => /\ last.exc = OK
       /\ builders[last.b].init_graph = None
       /\ builders[last.b].included_edges = None
       /\ builders[last.b].excluded_edges = None
       /\ builders[last.b].observed_variables = None
       /\ builders[last.b].latent_variables = None
       /\ StateOf(last.b) = EmptyDict

\* the six fields of kept context c, the dictionary by its items
ContextValue(cs, h, c) == [cs[c] EXCEPT !.state_variables = h[cs[c].state_variables]]

C10_Step ==
    \A c \in LiveContexts(contexts) :
        ~(last'.op = "build" /\ last'.exc = OK /\ last'.args.keep = c)
        => /\ c \in LiveContexts(contexts')
           /\ ContextValue(contexts', heap', c) = ContextValue(contexts, heap, c)

\* C10: the six fields of a Context that build() returned keep their values
\* through every later call on any builder (a build() whose result the
\* caller binds to the same name aside).
C10_ContextImmutable == [][C10_Step]_vars

\* C11: variables(O, L, data) with O and L given and data of columns C
\* raises ValueError whenever the union of O and L is not C or O and L share
\* a variable.
C11_BothGivenChecked ==
    (/\ last.op = "variables" /\ ~IsNone(last.args.data)
     /\ ~IsNone(last.args.observed) /\ ~IsNone(last.args.latents)
     /\ \/ Get(last.args.observed) \cup Get(last.args.latents) # Get(last.args.data)
        \/ Get(last.args.observed) \cap Get(last.args.latents) # {})
    => last.exc = ValueError

\* C12: with data of columns C, variables(latents = L) stores observed
\* C \ L and latent L; variables(observed = O) stores observed O and latent
\* C \ O; variables() stores observed C and no latent; each call returns.
C12_Interpolation ==
    (last.op = "variables" /\ ~IsNone(last.args.data))
    => LET C == Get(last.args.data)
           O == last.args.observed
           L == last.args.latents
           self == builders[last.b]
       IN  /\ (IsNone(O) /\ ~IsNone(L))
               => /\ last.exc = OK
                  /\ self.observed_variables = Some(C \ Get(L))
                  /\ self.latent_variables = L
           /\ (~IsNone(O) /\ IsNone(L))
               => /\ last.exc = OK
                  /\ self.observed_variables = O
                  /\ self.latent_variables = Some(C \ Get(O))
           /\ (IsNone(O) /\ IsNone(L))
               => /\ last.exc = OK
                  /\ self.observed_variables = Some(C)
                  /\ self.latent_variables = Some({})

\* variables(latents = L, data) has resolved a non-empty observed set from
\* columns of which L takes some
C12_Witness ==
    /\ last.op = "variables" /\ last.exc = OK /\ ~IsNone(last.args.data)
    /\ IsNone(last.args.observed) /\ ~IsNone(last.args.latents)
    /\ Get(last.args.latents) \cap Get(last.args.data) # {}
    /\ builders[last.b].observed_variables = Some({"b"})

\* C13: a call of variables() raises ValueError or returns with the observed
\* variables set; build() on a builder whose observed variables are unset
\* raises ValueError and returns no Context.
C13_ObservedResolved ==
    /\ last.op = "variables"
           => \/ last.exc = ValueError
              \/ last.exc = OK /\ ~IsNone(builders[last.b].observed_variables)
    /\ (last.op = "build" /\ IsNone(builders[last.b].observed_variables))
           => last.exc = ValueError /\ IsNone(last.result)

\* build() has raised on a builder that has everything but the observed
\* variables, which a failed variables() took away
C13_Witness ==
    /\ last.op = "build" /\ last.exc = ValueError
    /\ IsNone(builders[last.b].observed_variables)
    /\ ~IsNone(builders[last.b].init_graph)
    /\ ~IsNone(builders[last.b].included_edges)

\* every pair of distinct variables of V
Pairs(V) == {e \in SUBSET V : Cardinality(e) = 2}

\* C14: build() on a builder with observed variables V and with initial
\* graph, included edges, excluded edges and latent variables unset returns
\* a Context whose initial graph has the nodes V and every pair of them as
\* an edge, whose included and excluded graphs have the nodes V and no edge,
\* and whose latent set is empty.
C14_BuildDefaults ==
    (/\ last.op = "build"
     /\ ~IsNone(builders[last.b].observed_variables)
     /\ IsNone(builders[last.b].init_graph)
     /\ IsNone(builders[last.b].included_edges)
     /\ IsNone(builders[last.b].excluded_edges)
     /\ IsNone(builders[last.b].latent_variables))
    => LET V == Get(builders[last.b].observed_variables)
       IN  /\ last.exc = OK
           /\ Get(last.result).init_graph = [nodes |-> V, edges |-> Pairs(V)]
           /\ Get(last.result).included_edges = [nodes |-> V, edges |-> {}]
           /\ Get(last.result).excluded_edges = [nodes |-> V, edges |-> {}]
           /\ Get(last.result).observed_variables = V
           /\ Get(last.result).latent_variables = {}

\* build() has returned the defaults for the three observed variables
C14_Witness ==
    /\ last.op = "build" /\ last.exc = OK
    /\ builders[last.b].observed_variables = Some(Nodes)
    /\ IsNone(builders[last.b].init_graph)
    /\ IsNone(builders[last.b].included_edges)
    /\ IsNone(builders[last.b].excluded_edges)
    /\ IsNone(builders[last.b].latent_variables)
    /\ Cardinality(Get(last.result).init_graph.edges) = 3

\* C15: init_graph(g) always returns; build() on a builder with the initial
\* graph g raises ValueError exactly when the observed variables are unset
\* or one of them is no node of g, and otherwise returns a Context whose
\* initial graph is g, with all its nodes.
C15_InitGraphDeferred ==
    /\ last.op = "init_graph" => last.exc = OK
    /\ (last.op = "build" /\ ~IsNone(builders[last.b].init_graph))
       => LET g == Get(builders[last.b].init_graph)
              observed == builders[last.b].observed_variables
          IN  /\ last.exc = ValueError
                   <=> (IsNone(observed) \/ \E v \in Get(observed) : v \notin g.nodes)
              /\ last.exc # ValueError
                   => last.exc = OK /\ Get(last.result).init_graph = g

\* build() has returned an initial graph with a node that is not observed
C15_Witness ==
    /\ last.op = "build" /\ last.exc = OK
    /\ ~IsNone(builders[last.b].init_graph)
    /\ Get(last.result).init_graph.nodes \ Get(last.result).observed_variables # {}
    /\ Get(last.result).observed_variables # {}

C16_Step ==
    last'.op = "build"
    => /\ builders'[last'.b] = builders[last'.b]
       /\ heap'[builders'[last'.b].state_variables] = StateOf(last'.b)

\* a build() called now returns what the last build() returned
C16_Repeat ==
    (last.op = "build" /\ last.exc = OK)
    => build(builders[last.b]) = [context |-> last.result, exc |-> OK]

\* C16: a call of build(), whether it returns or raises, leaves the six
\* fields of the builder and the items of its state-variable dictionary as
\* they were; and after a build() that returned, a build() with no call in
\* between returns an equal Context.
C16_BuildNonDestructive == [][C16_Step]_vars /\ []C16_Repeat

\* build() has returned defaults on a builder that still has the fields
\* unset, and state variables
C16_Witness ==
    /\ last.op = "build" /\ last.exc = OK
    /\ IsNone(builders[last.b].latent_variables)
    /\ IsNone(builders[last.b].included_edges)
    /\ IsNone(builders[last.b].init_graph)
    /\ Get(last.result).init_graph.edges # {}
    /\ StateOf(last.b) # EmptyDict

C17_Step ==
    last'.op = "edges"
    => /\ last'.exc = OK
       /\ builders'[last'.b] =
              [builders[last'.b] EXCEPT !.included_edges = last'.args.include,
                                        !.excluded_edges = last'.args.exclude]
       /\ heap'[builders'[last'.b].state_variables] = StateOf(last'.b)

\* C17: a call of edges(include, exclude) returns, stores its two arguments
\* (None for an absent one) as the included and the excluded edges, whatever
\* they and the fields held, and leaves the other four fields and the
\* items of the state-variable dictionary as they were.
C17_EdgesOverwrites == [][C17_Step]_vars

\* edges() has stored two graphs that share an edge, on a builder with
\* observed variables and state variables
C17_Witness ==
    /\ last.op = "edges" /\ last.exc = OK
    /\ ~IsNone(builders[last.b].included_edges)
    /\ ~IsNone(builders[last.b].excluded_edges)
    /\ SharesEdge(Get(builders[last.b].included_edges), Get(builders[last.b].excluded_edges))
    /\ ~IsNone(builders[last.b].observed_variables)
    /\ StateOf(last.b) # EmptyDict

\* the call was refused exactly when arg has an edge of the set opposite
C18_Outcome(arg, field, opposite) ==
    /\ last.exc \in {OK, RuntimeError}
    /\ IsNone(arg) => (last.exc = OK /\ IsNone(field))
    /\ last.exc = RuntimeError
           <=> (~IsNone(arg) /\ ~IsNone(opposite) /\ SharesEdge(Get(arg), Get(opposite)))

\* C18: included_edges and excluded_edges either return or raise
\* RuntimeError; called with None they return and leave the field None; they
\* raise exactly when an edge of the argument is in the opposite set.
C18_AbsentAccepted ==
    /\ last.op = "included_edges"
           => C18_Outcome(last.args.include, builders[last.b].included_edges,
                          builders[last.b].excluded_edges)
    /\ last.op = "excluded_edges"
           => C18_Outcome(last.args.exclude, builders[last.b].excluded_edges,
                          builders[last.b].included_edges)

SetterNames ==
    {"init_graph", "included_edges", "excluded_edges", "edges", "observed_variables",
     "latent_variables", "variables", "state_variables", "state_variable"}

C19_Step ==
    \A B \in LiveBuilders(builders) :
        (last'.op \in SetterNames /\ last'.b # B)
        => /\ builders'[B] = builders[B]
           /\ heap'[builders'[B].state_variables] = StateOf(B)

\* C19: a setter called on one builder leaves the six fields of every other
\* builder, and the items of its state-variable dictionary, as they were.
C19_BuildersIsolated == [][C19_Step]_vars

====
